---------------------------- MODULE Spec2Model ----------------------------
(***************************************************************************)
(* A model of twittp (src/twittp/model.py, src/twittp/twitter.py): the     *)
(* trend cells and lines, the two distance algorithms, population of the   *)
(* lines from a tweet file, normalization, the leave-one-out evaluation    *)
(* and the persisted representation.                                       *)
(*                                                                         *)
(* Conventions                                                             *)
(*   - Python numbers are exact rationals <<num, den>> in lowest terms     *)
(*     with den > 0 (an int n is <<n, 1>>); `/` is exact division.         *)
(*   - Python's None is the empty tuple <<>>; a value that may be None is  *)
(*     carried as <<v>>.  TrendLine.start_ts is such a value, because      *)
(*     from_twitter_trend can assign None to it.                           *)
(*   - A call either returns or raises: Return(v) / Raise("IndexError").   *)
(*   - Python lists are sequences; the code's 0-based index i is i + 1.    *)
(***************************************************************************)
EXTENDS Integers, Sequences, FiniteSets, TLC

VARIABLES
    trends,         \* TrendModel.trends: the list of TrendLine objects
    tweet_file,     \* the records of the tweet file, in file order
    twitter_trend,  \* the TwitterTrend handed to from_twitter_trend
    a, b,           \* the two arguments of a distance function
    obj,            \* the decoded persisted representation
    call,           \* the last operation executed, with its arguments
    result,         \* what that operation returned or raised
    bag_of_words,   \* the BagOfWords: its (word, weight) items in dict order
    negative_names, \* random_trend_names: the set negative_names
    range_i,        \* random_trend_names: the index i of `for i in range(n)`
    pc              \* random_trend_names: the statement it is at

names_vars == <<bag_of_words, negative_names, range_i, pc>>

vars == <<trends, tweet_file, twitter_trend, a, b, obj, call, result,
          bag_of_words, negative_names, range_i, pc>>

\* No call of random_trend_names is in progress.
NamesIdle ==
    /\ bag_of_words = <<>> /\ negative_names = {}
    /\ range_i = 0 /\ pc = "idle"

----------------------------------------------------------------------------
(* Bounds of the model *)

MaxLen == 3         \* longest cell sequence handed to a distance function
MaxCount == 1       \* largest count of a cell handed to a distance function
MaxArrayLen == 3    \* longest array handed to array_trend_distance
MaxTick == 6        \* a trend's timestamps lie in the windows 0 .. MaxTick
MaxCells == 2       \* most cells of a line that is populated
MaxTweets == 2      \* most records of the tweet file

----------------------------------------------------------------------------
(* Python values *)

None == <<>>
Some(v) == <<v>>
Return(v) == [exc |-> "none", value |-> <<v>>]
Raise(e) == [exc |-> e, value |-> <<>>]
NoCall == [op |-> "none"]
NoResult == [exc |-> "none", value |-> <<>>]

RECURSIVE GCD(_, _)
GCD(x, y) == IF y = 0 THEN x ELSE GCD(y, x % y)

Abs(x) == IF x < 0 THEN -x ELSE x

Rat(n, d) ==
    LET g == GCD(Abs(n), Abs(d))
        s == IF d < 0 THEN -1 ELSE 1
    IN  <<(s * n) \div g, (s * d) \div g>>

I(n) == <<n, 1>>
Zero == I(0)
One == I(1)
RAdd(x, y) == Rat(x[1] * y[2] + y[1] * x[2], x[2] * y[2])
RSub(x, y) == Rat(x[1] * y[2] - y[1] * x[2], x[2] * y[2])
RMul(x, y) == Rat(x[1] * y[1], x[2] * y[2])
RDiv(x, y) == Rat(x[1] * y[2], x[2] * y[1])
RLt(x, y) == x[1] * y[2] < y[1] * x[2]
RLe(x, y) == x[1] * y[2] <= y[1] * x[2]
RSq(x) == RMul(x, x)

\* max in the place of min.
Max3(x, y, z) ==
    LET xy == IF RLt(x, y) THEN y ELSE x
    IN  IF RLt(xy, z) THEN z ELSE xy

\* Python's min(x, y, z): the first of the smallest.
Min3(x, y, z) ==
    LET xy == IF RLt(y, x) THEN y ELSE x
    IN  IF RLt(z, xy) THEN z ELSE xy

----------------------------------------------------------------------------
(* TrendCell *)

TrendCell(trending, count, delta, delta_delta, avg_followers, avg_statuses, retweets) ==
    [trending |-> trending, count |-> count, delta |-> delta,
     delta_delta |-> delta_delta, avg_followers |-> avg_followers,
     avg_statuses |-> avg_statuses, retweets |-> retweets]

\* TrendCell(trending): every other attribute takes its default, 0.
NewCell(trending) == TrendCell(trending, Zero, Zero, Zero, Zero, Zero, Zero)

TrendCell_distance(self, other) ==
    RAdd(RSq(RSub(self.count, other.count)),
    RAdd(RSq(RSub(self.delta, other.delta)),
    RAdd(RSq(RSub(self.delta_delta, other.delta_delta)),
    RAdd(RSq(RSub(self.avg_followers, other.avg_followers)),
    RAdd(RSq(RSub(self.avg_statuses, other.avg_statuses)),
         RSq(RSub(self.retweets, other.retweets)))))))

----------------------------------------------------------------------------
(* TrendLine *)

TrendLine(name, start_ts, data, window_size) ==
    [name |-> name, start_ts |-> start_ts, data |-> data,
     window_size |-> window_size]

DefaultWindowSize == 120

----------------------------------------------------------------------------
(* dtw_distance: the three loops fill the table; the second loop runs j    *)
(* over range(n), not range(m).                                            *)

\* One row of the table, entry by entry.  `prev` is row i - 1 and `row` holds
\* the entries 0 .. j - 1 of row i.  Row 0 is written for 0 < j < n only (the
\* second loop's range(n)); its other entries keep np.zeros' 0.
RECURSIVE DtwRow(_, _, _, _, _)
DtwRow(x, y, i, prev, row) ==
    LET n == Len(x)
        m == Len(y)
        j == Len(row)
        entry ==
            IF i = 0 /\ j = 0 THEN Zero
            ELSE IF j = 0
                THEN RAdd(TrendCell_distance(x[i + 1], y[1]), prev[1])
            ELSE IF i = 0
                THEN IF j < n
                     THEN RAdd(TrendCell_distance(x[1], y[j + 1]), row[j])
                     ELSE Zero
            ELSE RAdd(TrendCell_distance(x[i + 1], y[j + 1]),
                      Min3(prev[j + 1], row[j], prev[j]))
    IN  IF j = m THEN row ELSE DtwRow(x, y, i, prev, Append(row, entry))

\* The table after the three loops, for 1 <= n <= m (no loop raises then):
\* the rows 0 .. i.
RECURSIVE DtwTable(_, _, _)
DtwTable(x, y, i) ==
    IF i = 0 THEN <<DtwRow(x, y, 0, <<>>, <<>>)>>
    ELSE LET above == DtwTable(x, y, i - 1)
         IN  Append(above, DtwRow(x, y, i, above[i], <<>>))

dtw_distance(x, y) ==
    LET n == Len(x)
        m == Len(y)
    IN  IF n = 0 \/ m = 0 THEN Raise("IndexError")      \* dtw[0][0] = 0
        ELSE IF n > m THEN Raise("IndexError")          \* b[j] with j = m
        ELSE Return(DtwTable(x, y, n - 1)[n][m])        \* dtw[n - 1][m - 1]

----------------------------------------------------------------------------
(* TrendLine.distance: the sliding-offset distance *)

RECURSIVE SumAligned(_, _, _, _)
\* total of self.data[i].distance(other.data[offset + i]) for i in range(k)
SumAligned(self, other, offset, k) ==
    IF k = 0 THEN Zero
    ELSE RAdd(SumAligned(self, other, offset, k - 1),
              TrendCell_distance(self.data[k], other.data[offset + k]))

RECURSIVE MinOverOffsets(_, _, _)
\* min_distance after the offsets 0 .. last have been tried
MinOverOffsets(self, other, last) ==
    LET total == SumAligned(self, other, last, Len(self.data))
    IN  IF last = 0 THEN total
        ELSE LET min_distance == MinOverOffsets(self, other, last - 1)
             IN  IF RLt(total, min_distance) THEN total ELSE min_distance

TrendLine_distance(self, other) ==
    LET short == IF Len(self.data) > Len(other.data) THEN other ELSE self
        long == IF Len(self.data) > Len(other.data) THEN self ELSE other
    IN  Return(MinOverOffsets(short, long, Len(long.data) - Len(short.data)))

----------------------------------------------------------------------------
(* Distance functions applied to bounded inputs *)

RECURSIVE SeqsUpTo(_, _)
SeqsUpTo(S, k) ==
    IF k = 0 THEN {<<>>}
    ELSE LET shorter == SeqsUpTo(S, k - 1)
         IN  shorter \cup {Append(s, e) : s \in {t \in shorter : Len(t) = k - 1},
                                          e \in S}

DistCells == {TrendCell(FALSE, I(c), Zero, Zero, Zero, Zero, Zero) :
                c \in 0..MaxCount}

AsLine(data) == TrendLine("line", Some(0), data, DefaultWindowSize)

DistIdle ==
    /\ trends = <<>> /\ tweet_file = <<>> /\ twitter_trend = None
    /\ obj = None

DistInit ==
    /\ a \in SeqsUpTo(DistCells, MaxLen)
    /\ b \in SeqsUpTo(DistCells, MaxLen)
    /\ call = NoCall
    /\ result = NoResult
    /\ NamesIdle
    /\ DistIdle

CallDtw ==
    /\ call' = [op |-> "dtw_distance"]
    /\ result' = dtw_distance(a, b)
    /\ UNCHANGED <<trends, tweet_file, twitter_trend, a, b, obj>>
    /\ UNCHANGED names_vars

CallDistance ==
    /\ call' = [op |-> "TrendLine.distance"]
    /\ result' = TrendLine_distance(AsLine(a), AsLine(b))
    /\ UNCHANGED <<trends, tweet_file, twitter_trend, a, b, obj>>
    /\ UNCHANGED names_vars

DistNext == CallDtw \/ CallDistance

DistSpec == DistInit /\ [][DistNext]_vars

----------------------------------------------------------------------------
(* Claims about the distance functions, under DistSpec *)

CalledDtw == call.op = "dtw_distance"
CalledDistance == call.op = "TrendLine.distance"

\* C3: both distance algorithms are symmetric for series of any lengths,
\* dtw_distance(x, y) = dtw_distance(y, x) and x.distance(y) = y.distance(x),
\* and each call returns a value.  Stated here for the non-empty series the
\* claim covers.
C3_BothSymmetric ==
    (Len(a) >= 1 /\ Len(b) >= 1) =>
        /\ CalledDtw =>
              /\ result.exc = "none"
              /\ result = dtw_distance(b, a)
        /\ CalledDistance =>
              /\ result.exc = "none"
              /\ result = TrendLine_distance(AsLine(b), AsLine(a))

\* The sliding-offset half of C3 alone (it holds).
C3_SlidingSymmetric ==
    CalledDistance =>
        /\ result.exc = "none"
        /\ result = TrendLine_distance(AsLine(b), AsLine(a))

\* C4: for non-empty sequences the full-warp distance is at most the
\* sliding-offset distance of the same two sequences.  Stated of the calls
\* that return a value.
C4_WarpAtMostSliding ==
    (CalledDtw /\ Len(a) >= 1 /\ Len(b) >= 1 /\ result.exc = "none") =>
        RLe(result.value[1],
            TrendLine_distance(AsLine(a), AsLine(b)).value[1])

\* C4 as amended: for non-empty sequences of equal length the full-warp
\* distance is returned and is at most the sliding-offset distance.
C4_WarpAtMostSlidingEqualLength ==
    (CalledDtw /\ Len(a) >= 1 /\ Len(a) = Len(b)) =>
        /\ result.exc = "none"
        /\ RLe(result.value[1],
               TrendLine_distance(AsLine(a), AsLine(b)).value[1])

\* Two sequences of equal length, at least 3, on which warping finds a
\* strictly shorter path than the translation.
C4_Witness ==
    /\ CalledDtw /\ Len(a) >= 3 /\ Len(a) = Len(b)
    /\ result.exc = "none"
    /\ RLt(result.value[1],
           TrendLine_distance(AsLine(a), AsLine(b)).value[1])
    /\ RLt(Zero, result.value[1])

\* The table the claim C9 defines, entry (i, j).
RECURSIVE ClaimedD(_, _, _, _)
ClaimedD(x, y, i, j) ==
    IF i = 0 /\ j = 0 THEN Zero
    ELSE IF j = 0
        THEN RAdd(TrendCell_distance(x[i + 1], y[1]), ClaimedD(x, y, i - 1, 0))
    ELSE IF i = 0
        THEN RAdd(TrendCell_distance(x[1], y[j + 1]), ClaimedD(x, y, 0, j - 1))
    ELSE RAdd(TrendCell_distance(x[i + 1], y[j + 1]),
              Min3(ClaimedD(x, y, i - 1, j), ClaimedD(x, y, i, j - 1),
                   ClaimedD(x, y, i - 1, j - 1)))

\* C9: for all n >= 1 and m >= 1, n # m included, dtw_distance(A, B) returns
\* D[n-1][m-1] of the table whose first row and first column accumulate the
\* cell distances along their axis.
C9_ReturnsClaimedTable ==
    (CalledDtw /\ Len(a) >= 1 /\ Len(b) >= 1) =>
        result = Return(ClaimedD(a, b, Len(a) - 1, Len(b) - 1))

----------------------------------------------------------------------------
(* array_trend_distance *)

\* math.sqrt on the perfect squares the bounded inputs produce.
Sqrt(d) == CHOOSE r \in 0..d : r * r = d

\* start_a / start_b after the scan of x in range(k): None, or the first x
\* with arr[x] != 0.
ScanStart(arr, k) ==
    LET nz == {x \in 0..(k - 1) : arr[x + 1] # 0}
    IN  IF nz = {} THEN None
        ELSE Some(CHOOSE x \in nz : \A z \in nz : x <= z)

\* end_a / end_b after the same scan: 0, or the last x with arr[x] != 0.
ScanEnd(arr, k) ==
    LET nz == {x \in 0..(k - 1) : arr[x + 1] # 0}
    IN  IF nz = {} THEN 0
        ELSE CHOOSE x \in nz : \A z \in nz : z <= x

\* The inner loop from index i on, `total` accumulated so far.
RECURSIVE ArrayTotal(_, _, _, _, _, _)
ArrayTotal(x, y, start, offset, i, total) ==
    IF i = Len(x) THEN Return(I(total))
    ELSE IF start[1] + i >= Len(x) THEN Raise("IndexError")
    ELSE IF start[2] + offset + i >= Len(y) THEN Raise("IndexError")
    ELSE LET d == x[start[1] + i + 1] - y[start[2] + offset + i + 1]
         IN  IF d < 0 THEN Raise("ValueError")
             ELSE ArrayTotal(x, y, start, offset, i + 1, total + Sqrt(d))

\* The outer loop from `offset` on; min_distance is None or a number.
RECURSIVE ArrayOffsets(_, _, _, _, _, _)
ArrayOffsets(x, y, start, offset, stop, min_distance) ==
    IF offset >= stop THEN Return(min_distance)
    ELSE LET total == ArrayTotal(x, y, start, offset, 0, 0)
         IN  IF total.exc # "none" THEN total
             ELSE ArrayOffsets(x, y, start, offset + 1, stop,
                     IF min_distance = None THEN total.value[1]
                     ELSE IF RLt(total.value[1], min_distance)
                          THEN total.value[1]
                          ELSE min_distance)

array_trend_distance(x0, y0) ==
    LET x == IF Len(x0) > Len(y0) THEN y0 ELSE x0
        y == IF Len(x0) > Len(y0) THEN x0 ELSE y0
        start_a == ScanStart(x, Len(x))
        end_a == ScanEnd(x, Len(x))
        start_b == ScanStart(y, Len(x))
        end_b == ScanEnd(y, Len(x))
    IN  IF start_a = None THEN Raise("TypeError")   \* end_a - start_a + 1
        ELSE IF start_b = None THEN Raise("TypeError")
        ELSE LET len_a == end_a - start_a[1] + 1
                 len_b == end_b - start_b[1] + 1
             IN  ArrayOffsets(x, y, <<start_a[1], start_b[1]>>, 0,
                              len_b - len_a + 1, None)

ArrayValues == {0, 1}

ArrInit ==
    /\ a \in SeqsUpTo(ArrayValues, MaxArrayLen)
    /\ b \in SeqsUpTo(ArrayValues, MaxArrayLen)
    /\ call = NoCall
    /\ result = NoResult
    /\ NamesIdle
    /\ DistIdle

CallArrayTrendDistance ==
    /\ call' = [op |-> "array_trend_distance"]
    /\ result' = array_trend_distance(a, b)
    /\ UNCHANGED <<trends, tweet_file, twitter_trend, a, b, obj>>
    /\ UNCHANGED names_vars

ArrNext == CallArrayTrendDistance

ArrSpec == ArrInit /\ [][ArrNext]_vars

NoNonZero(arr) == \A k \in 1..Len(arr) : arr[k] = 0

\* C8: degenerate distance inputs return 0 rather than fail:
\* array_trend_distance(a, b) returns 0 whenever either array holds no
\* non-zero element (under ArrSpec).
C8_DegenerateArrayIsZero ==
    (call.op = "array_trend_distance" /\ (NoNonZero(a) \/ NoNonZero(b))) =>
        result = Return(Zero)

\* The other half of C8, under DistSpec: a series compared with an empty
\* series by TrendLine.distance gives 0 (it holds).
C8_EmptySeriesIsZero ==
    (CalledDistance /\ (a = <<>> \/ b = <<>>)) => result = Return(Zero)

----------------------------------------------------------------------------
(* TrendLine.from_twitter_trend *)

TwitterTrend(name, timestamps, window_size) ==
    [name |-> name, timestamps |-> timestamps, window_size |-> window_size]

\* The loop's variables before the first timestamp.
ScanStartState ==
    [longest_consecutive |-> 0, start_longest |-> None,
     start_consecutive |-> None, current_consecutive |-> 0,
     last_timestamp |-> None]

\* One iteration of the loop over twitter_trend.timestamps.
ScanStep(st, ts, window_size) ==
    LET body ==
        IF st.start_consecutive = None
        THEN [st EXCEPT !.start_consecutive = Some(ts),
                        !.current_consecutive = 1]
        ELSE IF ts = st.last_timestamp[1] + window_size
        THEN [st EXCEPT !.current_consecutive = @ + 1]
        ELSE IF st.start_longest = None
                \/ st.longest_consecutive < st.current_consecutive
        THEN [st EXCEPT !.start_longest = st.start_consecutive,
                        !.longest_consecutive = st.current_consecutive]
        ELSE [st EXCEPT !.start_consecutive = None,
                        !.current_consecutive = 0]
    IN  [body EXCEPT !.last_timestamp = Some(ts)]

RECURSIVE ScanTimestamps(_, _, _)
\* The loop's variables after the first k timestamps.
ScanTimestamps(timestamps, k, window_size) ==
    IF k = 0 THEN ScanStartState
    ELSE ScanStep(ScanTimestamps(timestamps, k - 1, window_size),
                  timestamps[k], window_size)

from_twitter_trend(tt, window_size) ==
    LET st == ScanTimestamps(tt.timestamps, Len(tt.timestamps), window_size)
        data == [k \in 1..st.longest_consecutive |-> NewCell(TRUE)]
    IN  TrendLine(tt.name, st.start_longest, data, window_size)

----------------------------------------------------------------------------
(* The persisted representation: serialize and from_obj.  A decoded JSON   *)
(* object is a function from its keys to its values; a value is <<v>>, or  *)
(* None for null.  dict.get(k) is None for a key that is missing and for a *)
(* key that holds null; obj[k] raises KeyError for a key that is missing.  *)

Get(o, k) == IF k \in DOMAIN o THEN o[k] ELSE None

\* A numeric attribute read back from a value: the number, or None for null.
Unwrap(v) == IF v = None THEN None ELSE v[1]

\* TwitTPEncoder.default on a TrendCell: its __dict__.
EncodeCell(cell) ==
    [trending |-> Some(cell.trending), count |-> Some(cell.count),
     delta |-> Some(cell.delta), delta_delta |-> Some(cell.delta_delta),
     avg_followers |-> Some(cell.avg_followers),
     avg_statuses |-> Some(cell.avg_statuses),
     retweets |-> Some(cell.retweets)]

\* TwitTPEncoder.default on a TrendLine: its __dict__.  start_ts is None or
\* <<ts>> in memory already.
EncodeLine(line) ==
    [name |-> Some(line.name), start_ts |-> line.start_ts,
     window_size |-> Some(line.window_size),
     data |-> Some([k \in 1..Len(line.data) |-> EncodeCell(line.data[k])])]

\* json.loads(TrendModel(trends).serialize())
serialize(model_trends) ==
    [trends |-> Some([k \in 1..Len(model_trends) |->
                        EncodeLine(model_trends[k])])]

TrendCell_from_obj(o) ==
    IF \/ Get(o, "trending") = None \/ Get(o, "count") = None
       \/ Get(o, "delta") = None \/ Get(o, "delta_delta") = None
    THEN Return(None)
    ELSE IF \E k \in {"avg_followers", "avg_statuses", "retweets"} :
                k \notin DOMAIN o
    THEN Raise("KeyError")
    ELSE Return(TrendCell(o.trending[1], o.count[1], o.delta[1],
                          o.delta_delta[1], Unwrap(o.avg_followers),
                          Unwrap(o.avg_statuses), Unwrap(o.retweets)))

TrendLine_from_obj(o) ==
    IF \/ Get(o, "name") = None \/ Get(o, "window_size") = None
       \/ Get(o, "data") = None \/ Get(o, "start_ts") = None
    THEN Return(None)
    ELSE LET cells == [k \in 1..Len(o.data[1]) |->
                          TrendCell_from_obj(o.data[1][k])]
         IN  IF \E k \in 1..Len(cells) : cells[k].exc # "none"
             THEN Raise("KeyError")
             ELSE Return(TrendLine(o.name[1], o.start_ts,
                                   [k \in 1..Len(cells) |-> cells[k].value[1]],
                                   o.window_size[1]))

TrendModel(model_trends) == [trends |-> model_trends]

TrendModel_from_obj(o) ==
    IF Get(o, "trends") = None THEN Return(None)
    ELSE LET lines == [k \in 1..Len(o.trends[1]) |->
                          TrendLine_from_obj(o.trends[1][k])]
         IN  IF \E k \in 1..Len(lines) : lines[k].exc # "none"
             THEN Raise("KeyError")
             ELSE Return(TrendModel([k \in 1..Len(lines) |->
                                        lines[k].value[1]]))

----------------------------------------------------------------------------
(* A trend's timestamps become a line, the line a model, the model its     *)
(* persisted representation, and that representation a model again.        *)

Without(o, k) == [f \in (DOMAIN o) \ {k} |-> o[f]]

\* The persisted representations that lack one field of `o`, at any level.
LosingOneField(o) ==
    LET lines == o.trends[1]
    IN  {Without(o, "trends")}
        \cup {[trends |-> Some([lines EXCEPT ![i] = Without(@, k)])] :
                i \in DOMAIN lines,
                k \in {"name", "start_ts", "window_size", "data"}}
        \cup UNION {
               {[trends |-> Some([lines EXCEPT ![i].data =
                     Some([lines[i].data[1] EXCEPT ![j] = Without(@, k)])])] :
                  j \in DOMAIN lines[i].data[1],
                  k \in {"trending", "count", "delta", "delta_delta",
                         "avg_followers", "avg_statuses", "retweets"}} :
               i \in DOMAIN lines}

\* Strictly ascending timestamps, each the start of a window; a trend that
\* from_json_strings returns has at least one.
RECURSIVE Ascending(_)
Ascending(ticks) ==
    IF ticks = {} THEN <<>>
    ELSE LET t == CHOOSE x \in ticks : \A z \in ticks : x <= z
         IN  <<t * DefaultWindowSize>> \o Ascending(ticks \ {t})

TwitterTrends == {TwitterTrend("trend", Ascending(ticks), DefaultWindowSize) :
                    ticks \in (SUBSET (0..MaxTick)) \ {{}}}

TrendInit ==
    /\ twitter_trend \in TwitterTrends
    /\ trends = <<>> /\ obj = None
    /\ tweet_file = <<>> /\ a = <<>> /\ b = <<>>
    /\ call = NoCall
    /\ result = NoResult
    /\ NamesIdle

\* TrendModel(trends=[TrendLine.from_twitter_trend(twitter_trend)])
CallFromTwitterTrend ==
    /\ trends = <<>>
    /\ LET line == from_twitter_trend(twitter_trend, DefaultWindowSize)
       IN  /\ trends' = <<line>>
           /\ result' = Return(line)
    /\ call' = [op |-> "from_twitter_trend"]
    /\ UNCHANGED <<tweet_file, twitter_trend, a, b, obj>>
    /\ UNCHANGED names_vars

CallSerialize ==
    /\ trends # <<>>
    /\ obj' = Some(serialize(trends))
    /\ call' = [op |-> "serialize"]
    /\ result' = Return(obj'[1])
    /\ UNCHANGED <<trends, tweet_file, twitter_trend, a, b>>
    /\ UNCHANGED names_vars

\* The stored representation loses one required field.
LoseField ==
    /\ obj = Some(serialize(trends))
    /\ \E damaged \in LosingOneField(obj[1]) : obj' = Some(damaged)
    /\ call' = [op |-> "lose_field"]
    /\ result' = NoResult
    /\ UNCHANGED <<trends, tweet_file, twitter_trend, a, b>>
    /\ UNCHANGED names_vars

CallFromObj ==
    /\ obj # None
    /\ call' = [op |-> "TrendModel.from_obj"]
    /\ result' = TrendModel_from_obj(obj[1])
    /\ UNCHANGED <<trends, tweet_file, twitter_trend, a, b, obj>>
    /\ UNCHANGED names_vars

TrendNext == CallFromTwitterTrend \/ CallSerialize \/ LoseField \/ CallFromObj

TrendSpec == TrendInit /\ [][TrendNext]_vars

----------------------------------------------------------------------------
(* Claims about from_twitter_trend and the persisted representation,       *)
(* under TrendSpec                                                         *)

RECURSIVE RunFrom(_, _, _)
\* The length of the run of timestamps spaced window_size that starts at k.
RunFrom(timestamps, k, window_size) ==
    IF k < Len(timestamps) /\ timestamps[k + 1] = timestamps[k] + window_size
    THEN 1 + RunFrom(timestamps, k + 1, window_size)
    ELSE 1

LongestRun(timestamps, window_size) ==
    CHOOSE n \in 1..Len(timestamps) :
        /\ \E k \in 1..Len(timestamps) : RunFrom(timestamps, k, window_size) = n
        /\ \A k \in 1..Len(timestamps) : RunFrom(timestamps, k, window_size) <= n

\* C10: for every ascending timestamp sequence the line from_twitter_trend
\* returns has as many cells as the longest run of timestamps spaced exactly
\* window_size apart, all labelled trending, and starts at the first
\* timestamp of such a run.
C10_LineIsLongestRun ==
    (call.op = "from_twitter_trend" /\ Len(twitter_trend.timestamps) >= 1) =>
        LET line == result.value[1]
            ts == twitter_trend.timestamps
            longest == LongestRun(ts, line.window_size)
        IN  /\ Len(line.data) = longest
            /\ \A k \in 1..Len(line.data) : line.data[k].trending
            /\ line.start_ts # None
            /\ \E k \in 1..Len(ts) :
                  /\ ts[k] = line.start_ts[1]
                  /\ RunFrom(ts, k, line.window_size) = longest

Intact == obj = Some(serialize(trends))

\* C5: from_obj applied to the decoded output of serialize() yields a model
\* with the same number of lines, each with the same name, start_ts and
\* window_size and the same cells in all seven fields.
C5_RoundTrip ==
    (call.op = "TrendModel.from_obj" /\ Intact) =>
        /\ result.exc = "none"
        /\ result.value[1] # None
        /\ Len(result.value[1].trends) = Len(trends)
        /\ \A k \in 1..Len(trends) :
              LET back == result.value[1].trends[k]
              IN  /\ back # None
                  /\ back.name = trends[k].name
                  /\ back.start_ts = trends[k].start_ts
                  /\ back.window_size = trends[k].window_size
                  /\ back.data = trends[k].data

\* The round trip of the models whose lines all have a start_ts (it holds).
C5_RoundTripOfStartedLines ==
    (/\ call.op = "TrendModel.from_obj" /\ Intact
     /\ \A k \in 1..Len(trends) : trends[k].start_ts # None) =>
        result = Return(TrendModel(trends))

CellFields == {"trending", "count", "delta", "delta_delta", "avg_followers",
               "avg_statuses", "retweets"}
LineFields == {"name", "start_ts", "window_size", "data"}

\* A required field is missing at some level of the representation.
MissingField(o) ==
    \/ "trends" \notin DOMAIN o
    \/ \E i \in DOMAIN o.trends[1] :
          LET line == o.trends[1][i]
          IN  \/ \E k \in LineFields : k \notin DOMAIN line
              \/ \E j \in DOMAIN line.data[1] :
                    \E k \in CellFields : k \notin DOMAIN line.data[1][j]

\* C7: from a representation in which a required field is missing at any
\* level, TrendModel.from_obj returns None: it returns no TrendModel and
\* does not raise.
C7_MissingFieldGivesNone ==
    (call.op = "TrendModel.from_obj" /\ MissingField(obj[1])) =>
        result = Return(None)

\* The top level of C7 alone: without 'trends' the result is None (it holds).
C7_MissingTrendsGivesNone ==
    (call.op = "TrendModel.from_obj" /\ "trends" \notin DOMAIN obj[1]) =>
        result = Return(None)

----------------------------------------------------------------------------
(* TrendLine.populate_from_file *)

\* name.split() for the names of the model.
Words(name) == IF name = "a b" THEN <<"a", "b">> ELSE <<name>>

\* TrendLine.match_text; `text` is the list tweet['text'].split().
match_text(self, text) ==
    \E w \in DOMAIN Words(self.name) :
        \E t \in DOMAIN text : text[t] = Words(self.name)[w]

\* end_ts[name]: the dict is keyed by name, so a later line of the same name
\* overwrites the entry of an earlier one.
end_ts(lines, name) ==
    LET last == CHOOSE k \in DOMAIN lines :
                    /\ lines[k].name = name
                    /\ \A z \in DOMAIN lines : lines[z].name = name => z <= k
    IN  lines[last].start_ts[1]
            + lines[last].window_size * Len(lines[last].data)

\* A Python list indexed at `offset`, which the caller knows to be >= 0.
InBounds(data, offset) == offset < Len(data)

\* retweets + 1 if tweet['retweeted'] else retweets
RetweetsAfter(retweets, tweet) ==
    IF tweet.retweeted THEN RAdd(retweets, One) ELSE retweets

\* The body of `for trend in trends` for the line at index k.  Names and
\* spans do not change during the pass, so end_ts reads them from `lines`.
PassOneLine(lines, k, tweet) ==
    LET trend == lines[k]
    IN  IF /\ trend.start_ts[1] <= tweet.ts
           /\ tweet.ts < end_ts(lines, trend.name)
           /\ match_text(trend, tweet.text)
        THEN LET offset == (tweet.ts - trend.start_ts[1]) \div trend.window_size
             IN  IF ~InBounds(trend.data, offset)
                 THEN [exc |-> "IndexError", trends |-> lines]
                 ELSE [exc |-> "none", trends |->
                        [lines EXCEPT ![k].data[offset + 1] =
                            [@ EXCEPT
                               !.count = RAdd(@, One),
                               !.avg_followers = RAdd(@, I(tweet.user_followers)),
                               !.avg_statuses = RAdd(@, I(tweet.user_statuses)),
                               !.retweets = RetweetsAfter(@, tweet)]]]
        ELSE [exc |-> "none", trends |-> lines]

RECURSIVE PassOneTweet(_, _, _)
\* One record against the lines k, k + 1, ...
PassOneTweet(lines, k, tweet) ==
    IF k > Len(lines) THEN [exc |-> "none", trends |-> lines]
    ELSE LET step == PassOneLine(lines, k, tweet)
         IN  IF step.exc # "none" THEN step
             ELSE PassOneTweet(step.trends, k + 1, tweet)

RECURSIVE PassOne(_, _, _)
\* The records i, i + 1, ... of the file.
PassOne(lines, file, i) ==
    IF i > Len(file) THEN [exc |-> "none", trends |-> lines]
    ELSE LET step == PassOneTweet(lines, 1, file[i])
         IN  IF step.exc # "none" THEN step
             ELSE PassOne(step.trends, file, i + 1)

\* The second pass on the cell at `index` (0-based); the cells before it
\* have been through it already.
PassTwoCell(data, index) ==
    LET datum == data[index + 1]
        averaged ==
            IF RLt(Zero, datum.count)
            THEN [datum EXCEPT
                    !.avg_followers = RDiv(@, datum.count),
                    !.avg_statuses = RDiv(@, datum.count),
                    !.retweets = RDiv(@, datum.count)]
            ELSE datum
        delta == RSub(datum.count, data[index].count)
    IN  IF index = 0
        THEN [averaged EXCEPT !.delta = Zero, !.delta_delta = Zero]
        ELSE IF index = 1
        THEN [averaged EXCEPT !.delta = delta, !.delta_delta = Zero]
        ELSE [averaged EXCEPT !.delta = delta,
                              !.delta_delta = RSub(delta, data[index].delta)]

RECURSIVE PassTwoLine(_, _)
\* The second pass on the cells index, index + 1, ... of one line.
PassTwoLine(data, index) ==
    IF index >= Len(data) THEN data
    ELSE PassTwoLine([data EXCEPT ![index + 1] = PassTwoCell(data, index)],
                     index + 1)

PassTwo(lines) ==
    [k \in DOMAIN lines |-> [lines[k] EXCEPT !.data = PassTwoLine(@, 0)]]

\* What populate_from_file leaves in the lines, and whether it raised.
populate_from_file(lines, file) ==
    LET first == PassOne(lines, file, 1)
    IN  IF first.exc # "none" THEN first
        ELSE [exc |-> "none", trends |-> PassTwo(first.trends)]

----------------------------------------------------------------------------
(* TrendModel.normalize *)

RECURSIVE MaxOf(_, _)
\* max([datum.<field> for datum in data]) of a non-empty list of numbers
MaxOf(values, k) ==
    IF k = 1 THEN values[1]
    ELSE LET m == MaxOf(values, k - 1)
         IN  IF RLt(m, values[k]) THEN values[k] ELSE m

FieldMax(data, field) ==
    MaxOf([k \in DOMAIN data |-> data[k][field]], Len(data))

\* max_x = 1 if max_x == 0 else max_x
Divisor(data, field) ==
    LET m == FieldMax(data, field)
    IN  IF m = Zero THEN One ELSE m

NormalizeLine(trend) ==
    [trend EXCEPT !.data =
        [j \in DOMAIN trend.data |->
            [trend.data[j] EXCEPT
                !.count = RDiv(@, Divisor(trend.data, "count")),
                !.delta = RDiv(@, Divisor(trend.data, "delta")),
                !.delta_delta = RDiv(@, Divisor(trend.data, "delta_delta")),
                !.avg_followers = RDiv(@, Divisor(trend.data, "avg_followers")),
                !.avg_statuses = RDiv(@, Divisor(trend.data, "avg_statuses"))]]]

RECURSIVE NormalizeFrom(_, _)
\* The loop over the lines i, i + 1, ...; max() of an empty list raises.
NormalizeFrom(lines, i) ==
    IF i > Len(lines) THEN [exc |-> "none", trends |-> lines]
    ELSE IF lines[i].data = <<>> THEN [exc |-> "ValueError", trends |-> lines]
    ELSE NormalizeFrom([lines EXCEPT ![i] = NormalizeLine(@)], i + 1)

normalize(lines) == NormalizeFrom(lines, 1)

----------------------------------------------------------------------------
(* TrendModel.leave_one_out *)

\* self.normalize() runs first.  The labels are then read as
\* trend.data.trending, an attribute of the list trend.data: a list has no
\* such attribute, so the list comprehension raises for the first line.  A
\* model with no line passes both loops and divides 0 by 0.
leave_one_out(lines) ==
    LET normalized == normalize(lines)
    IN  IF normalized.exc # "none" THEN normalized
        ELSE IF Len(lines) >= 1
        THEN [exc |-> "AttributeError", trends |-> normalized.trends]
        ELSE [exc |-> "ZeroDivisionError", trends |-> normalized.trends]

----------------------------------------------------------------------------
(* A model is populated from a tweet file, normalized and evaluated, as    *)
(* model_from_files and its caller do.                                     *)

LineNames == {"a", "b"}
LineStarts == {0, DefaultWindowSize}

\* A positive line as from_twitter_trend leaves it, or a negative line as
\* random_trend leaves it: new cells, all with the same label.
FreshLines ==
    {TrendLine(name, Some(start), [k \in 1..len |-> NewCell(trending)],
               DefaultWindowSize) :
        name \in LineNames, start \in LineStarts, len \in 1..MaxCells,
        trending \in BOOLEAN}

Positive(line) == \E k \in DOMAIN line.data : line.data[k].trending

\* all_trends: the positive lines, then the negative lines.
FreshModels ==
    {<<p, n>> : p \in {l \in FreshLines : Positive(l)},
                n \in {l \in FreshLines : ~Positive(l)}}

\* A tweet: its words, created_at in seconds since the epoch, its user's
\* followers and statuses, and whether it is a retweet.
Tweet(text, ts, user_followers, user_statuses, retweeted) ==
    [text |-> text, ts |-> ts, user_followers |-> user_followers,
     user_statuses |-> user_statuses, retweeted |-> retweeted]

\* Tweets of the first window are original, those of the second retweets.
Tweets ==
    {Tweet(<<word>>, DefaultWindowSize \div 2, 2, 3, FALSE) :
        word \in LineNames}
    \cup {Tweet(<<word>>, DefaultWindowSize + DefaultWindowSize \div 2,
                4, 1, TRUE) : word \in LineNames}

ModelInit ==
    /\ trends \in FreshModels
    /\ tweet_file \in SeqsUpTo(Tweets, MaxTweets)
    /\ twitter_trend = None /\ a = <<>> /\ b = <<>> /\ obj = None
    /\ call = NoCall
    /\ result = NoResult
    /\ NamesIdle

CallPopulate ==
    /\ call.op = "none"
    /\ LET done == populate_from_file(trends, tweet_file)
       IN  /\ trends' = done.trends
           /\ result' = IF done.exc = "none" THEN Return(None)
                        ELSE Raise(done.exc)
    /\ call' = [op |-> "populate_from_file", trends |-> trends]
    /\ UNCHANGED <<tweet_file, twitter_trend, a, b, obj>>
    /\ UNCHANGED names_vars

\* model_from_files normalizes the model it has populated; leave_one_out
\* normalizes the model it is called on once more.
CallNormalize ==
    /\ \/ call.op = "populate_from_file" /\ result.exc = "none"
       \/ call.op = "normalize"
    /\ LET done == normalize(trends)
       IN  /\ trends' = done.trends
           /\ result' = IF done.exc = "none" THEN Return(None)
                        ELSE Raise(done.exc)
    /\ call' = [op |-> "normalize", trends |-> trends]
    /\ UNCHANGED <<tweet_file, twitter_trend, a, b, obj>>
    /\ UNCHANGED names_vars

\* No path of leave_one_out reaches its return statement.
CallLeaveOneOut ==
    /\ call.op = "normalize"
    /\ LET done == leave_one_out(trends)
       IN  /\ trends' = done.trends
           /\ result' = Raise(done.exc)
    /\ call' = [op |-> "leave_one_out", trends |-> trends]
    /\ UNCHANGED <<tweet_file, twitter_trend, a, b, obj>>
    /\ UNCHANGED names_vars

ModelNext == CallPopulate \/ CallNormalize \/ CallLeaveOneOut

ModelSpec == ModelInit /\ [][ModelNext]_vars

----------------------------------------------------------------------------
(* Claims about population, normalization and evaluation, under ModelSpec  *)

\* The orderings of a file's records.
Orderings(file) ==
    LET n == Len(file)
        bijections == {f \in [1..n -> 1..n] : \A i, j \in 1..n :
                                                 f[i] = f[j] => i = j}
    IN  {[i \in 1..n |-> file[f[i]]] : f \in bijections}

ValueFields == {"count", "avg_followers", "avg_statuses", "retweets",
                "delta", "delta_delta"}

SameValues(lines1, lines2) ==
    \A k \in DOMAIN lines1 : \A j \in DOMAIN lines1[k].data :
        \A f \in ValueFields : lines1[k].data[j][f] = lines2[k].data[j][f]

\* C6: population is order-independent: from the same initial lines, any two
\* orderings of the same records leave identical values of count,
\* avg_followers, avg_statuses, retweets, delta and delta_delta in every cell
\* of every line.
C6_OrderIndependent ==
    call.op = "populate_from_file" =>
        \A file \in Orderings(tweet_file) :
            SameValues(populate_from_file(call.trends, file).trends, trends)

\* C6 of the runs in which populate_from_file returns (it holds): every
\* ordering returns too, with the same values.
C6_OrderIndependentWhenReturning ==
    (call.op = "populate_from_file" /\ result.exc = "none") =>
        \A file \in Orderings(tweet_file) :
            populate_from_file(call.trends, file) =
                [exc |-> "none", trends |-> trends]

NormalizedFields == {"count", "delta", "delta_delta", "avg_followers",
                     "avg_statuses"}

InUnitRange(x) == RLe(Zero, x) /\ RLe(x, One)

\* C2: after normalize() on a populated model every cell value of count,
\* delta, delta_delta, avg_followers and avg_statuses lies in [0, 1], and
\* some cell of the line has the value 1 for the field unless the line's
\* maximum of the field was 0 before.
C2_NormalizedInUnitRange ==
    (call.op = "normalize" /\ result.exc = "none") =>
        \A k \in DOMAIN trends : \A f \in NormalizedFields :
            /\ \A j \in DOMAIN trends[k].data :
                  InUnitRange(trends[k].data[j][f])
            /\ FieldMax(call.trends[k].data, f) # Zero =>
                  \E j \in DOMAIN trends[k].data : trends[k].data[j][f] = One

\* C2 without the lower bound on delta and delta_delta (it holds): every
\* value is at most 1, count and the two averages are at least 0, and the
\* maximum is attained as 1.
C2_NormalizedAtMostOne ==
    (call.op = "normalize" /\ result.exc = "none") =>
        \A k \in DOMAIN trends : \A f \in NormalizedFields :
            /\ \A j \in DOMAIN trends[k].data :
                  /\ RLe(trends[k].data[j][f], One)
                  /\ f \notin {"delta", "delta_delta"} =>
                        RLe(Zero, trends[k].data[j][f])
            /\ FieldMax(call.trends[k].data, f) # Zero =>
                  \E j \in DOMAIN trends[k].data : trends[k].data[j][f] = One

\* The match the claim C1 gives line i: the lowest j # i at the least
\* full-warp distance from i.
ClaimedMatch(lines, i) ==
    LET others == (DOMAIN lines) \ {i}
        dist(j) == dtw_distance(lines[i].data, lines[j].data).value[1]
    IN  CHOOSE j \in others :
            /\ \A z \in others : RLe(dist(j), dist(z))
            /\ \A z \in others : dist(z) = dist(j) => j <= z

\* (TP / (TP + FP), TP / (TP + FN)) under the claim's classification.
ClaimedPrecisionRecall(lines) ==
    LET matched(i) == Positive(lines[ClaimedMatch(lines, i)])
        TP == Cardinality({i \in DOMAIN lines : Positive(lines[i]) /\ matched(i)})
        FN == Cardinality({i \in DOMAIN lines : Positive(lines[i]) /\ ~matched(i)})
        FP == Cardinality({i \in DOMAIN lines : ~Positive(lines[i]) /\ matched(i)})
    IN  <<Rat(TP, TP + FP), Rat(TP, TP + FN)>>

\* C1: on a model of at least two lines leave_one_out matches every line
\* with the lowest index at the least full-warp distance, classifies it by
\* its own and its match's label, and returns (TP/(TP+FP), TP/(TP+FN)); one
\* positive and one negative all-zero line give (0, 0).
C1_LeaveOneOutReturnsPrecisionRecall ==
    (call.op = "leave_one_out" /\ Len(trends) >= 2) =>
        /\ result.exc = "none"
        /\ result.value[1] = ClaimedPrecisionRecall(trends)

----------------------------------------------------------------------------
(* BagOfWords.random_trend_names and TrendLine.construct_negative_trends   *)

MaxNames == 2       \* most positive lines, and the largest n asked for
MaxWords == 2       \* most words of the bag

\* A Python value with its type: a str, or an object of class TrendLine.
Str(s) == [type |-> "str", str |-> s]
Object(line) == [type |-> "TrendLine", object |-> line]

\* s == y for a str s: an equal str.  TrendLine defines no __eq__, so a str
\* and a TrendLine are never equal.
StrEq(s, y) == y.type = "str" /\ y.str = s

\* s in items, for a list
StrIn(s, items) == \E k \in DOMAIN items : StrEq(s, items[k])

\* self.most_common(1): [] for an empty counter, else the first item, in
\* dict order, of the largest weight.
most_common(bag) ==
    IF bag = <<>> THEN <<>>
    ELSE LET k == CHOOSE k \in DOMAIN bag :
                    /\ \A z \in DOMAIN bag : bag[z].weight <= bag[k].weight
                    /\ \A z \in DOMAIN bag :
                          z < k => bag[z].weight < bag[k].weight
         IN  <<bag[k]>>

\* self[word] = 0, for a word the counter holds: its place is kept.
SetZero(bag, word) ==
    [k \in DOMAIN bag |->
        IF bag[k].word = word THEN [bag[k] EXCEPT !.weight = 0] ELSE bag[k]]

\* list(negative_names): the names in the order the set yields them.
ListsOf(S) ==
    {s \in [1..Cardinality(S) -> S] : \A x \in S : \E k \in DOMAIN s : s[k] = x}

\* min / max of a non-empty list of ints
MinInt(s) == CHOOSE x \in {s[k] : k \in DOMAIN s} : \A k \in DOMAIN s : x <= s[k]
MaxInt(s) == CHOOSE x \in {s[k] : k \in DOMAIN s} : \A k \in DOMAIN s : s[k] <= x

\* TrendLine.random_trend: what it can return or raise, over the draws of
\* random.randrange and random.randint (which raises on an empty range).
random_trend(name, start, end, lengths) ==
    UNION {LET lo == start \div 120
               hi == (end \div 120) - lengths[k]
           IN  IF lo > hi THEN {Raise("ValueError")}
               ELSE {Return(TrendLine(name, Some(start_trend * 120),
                                      [j \in 1..lengths[k] |-> NewCell(FALSE)],
                                      DefaultWindowSize)) :
                        start_trend \in lo..hi}
           : k \in DOMAIN lengths}

\* The list comprehension of construct_negative_trends over `names`: the
\* lines it can build, or the exception of the first name that raises.
NegativeTrends(lines, names) ==
    LET start == MinInt([k \in DOMAIN lines |-> lines[k].start_ts[1]])
        end == MaxInt([k \in DOMAIN lines |->
                          lines[k].window_size * Len(lines[k].data)
                              + lines[k].start_ts[1]])
        lengths == [k \in DOMAIN lines |-> Len(lines[k].data)]
        draws == {f \in [DOMAIN names ->
                            UNION {random_trend(names[k], start, end, lengths) :
                                      k \in DOMAIN names}] :
                     \A k \in DOMAIN names :
                        f[k] \in random_trend(names[k], start, end, lengths)}
    IN  {IF \E k \in DOMAIN names : f[k].exc # "none"
         THEN Raise("ValueError")
         ELSE Return([k \in DOMAIN names |-> f[k].value[1]]) : f \in draws}

BagWords == {"a", "b", "c"}
Weights == {1, 2}

\* A BagOfWords as from_file builds it: distinct words, each counted at
\* least once.
Bags ==
    {bag \in SeqsUpTo([word : BagWords, weight : Weights], MaxWords) :
        \A j, k \in DOMAIN bag : bag[j].word = bag[k].word => j = k}

\* The positive lines handed to construct_negative_trends.
PositiveLines ==
    {TrendLine(name, Some(start), [k \in 1..len |-> NewCell(TRUE)],
               DefaultWindowSize) :
        name \in LineNames, start \in LineStarts, len \in 1..MaxCells}

NamesInit ==
    /\ trends \in SeqsUpTo(PositiveLines, MaxNames)
    /\ bag_of_words \in Bags
    /\ negative_names = {} /\ range_i = 0 /\ pc = "idle"
    /\ tweet_file = <<>> /\ twitter_trend = None
    /\ a = <<>> /\ b = <<>> /\ obj = None
    /\ call = NoCall
    /\ result = NoResult

\* random_trend_names(positive_trends, n) up to its for loop: the table of
\* accumulated weights it builds first is never read.
EnterRandomTrendNames(op, positive_trends, n) ==
    /\ call' = [op |-> op, positive_trends |-> positive_trends, n |-> n]
    /\ negative_names' = {}
    /\ range_i' = 0
    /\ pc' = "for"
    /\ UNCHANGED <<trends, tweet_file, twitter_trend, a, b, obj, result,
                   bag_of_words>>

\* A call of random_trend_names with the positive names, or with the
\* positive lines.
CallRandomTrendNames ==
    /\ pc = "idle"
    /\ \E n \in 0..MaxNames :
         \/ EnterRandomTrendNames("random_trend_names",
                [k \in DOMAIN trends |-> Str(trends[k].name)], n)
         \/ EnterRandomTrendNames("random_trend_names",
                [k \in DOMAIN trends |-> Object(trends[k])], n)

\* construct_negative_trends up to its call of random_trend_names, which it
\* hands the TrendLine objects; min() of no line raises.
CallConstructNegativeTrends ==
    /\ pc = "idle"
    /\ IF trends = <<>>
       THEN /\ call' = [op |-> "construct_negative_trends",
                        positive_trends |-> <<>>, n |-> 0]
            /\ result' = Raise("ValueError")
            /\ pc' = "done"
            /\ UNCHANGED <<trends, tweet_file, twitter_trend, a, b, obj,
                           bag_of_words, negative_names, range_i>>
       ELSE EnterRandomTrendNames("construct_negative_trends",
                [k \in DOMAIN trends |-> Object(trends[k])], Len(trends))

\* for i in range(n): the next i, or the end of the loop.
ForStep ==
    /\ pc = "for"
    /\ pc' = IF range_i < call.n THEN "while" ELSE "return"
    /\ UNCHANGED <<trends, tweet_file, twitter_trend, a, b, obj, call, result,
                   bag_of_words, negative_names, range_i>>

\* One pass of `while True`: the most common word is taken and its weight
\* set to 0; the loop is left when the word is a new one.
WhileStep ==
    /\ pc = "while"
    /\ IF most_common(bag_of_words) = <<>>
       THEN /\ result' = Raise("IndexError")
            /\ pc' = "done"
            /\ UNCHANGED <<bag_of_words, negative_names, range_i>>
       ELSE LET new_trend == most_common(bag_of_words)[1].word
            IN  /\ bag_of_words' = SetZero(bag_of_words, new_trend)
                /\ IF /\ ~StrIn(new_trend, call.positive_trends)
                      /\ new_trend \notin negative_names
                   THEN /\ negative_names' = negative_names \cup {new_trend}
                        /\ range_i' = range_i + 1
                        /\ pc' = "for"
                   ELSE UNCHANGED <<negative_names, range_i, pc>>
                /\ UNCHANGED result
    /\ UNCHANGED <<trends, tweet_file, twitter_trend, a, b, obj, call>>

\* return list(negative_names), and in construct_negative_trends the lines
\* built from the names.
ReturnNames ==
    /\ pc = "return"
    /\ \E names \in ListsOf(negative_names) :
         IF call.op = "random_trend_names"
         THEN result' = Return(names)
         ELSE result' \in NegativeTrends(trends, names)
    /\ pc' = "done"
    /\ UNCHANGED <<trends, tweet_file, twitter_trend, a, b, obj, call,
                   bag_of_words, negative_names, range_i>>

NamesNext ==
    \/ CallRandomTrendNames
    \/ CallConstructNegativeTrends
    \/ ForStep
    \/ WhileStep
    \/ ReturnNames

NamesSpec == NamesInit /\ [][NamesNext]_vars

\* Every statement of the call is executed in turn.
NamesFairSpec == NamesSpec /\ WF_vars(NamesNext)

----------------------------------------------------------------------------
(* Claims about negative-line generation, under NamesSpec / NamesFairSpec  *)

ConstructReturned ==
    /\ call.op = "construct_negative_trends"
    /\ pc = "done"
    /\ result.exc = "none"

NamesOf(lines) == {lines[k].name : k \in DOMAIN lines}

\* C11: when construct_negative_trends returns, it returns exactly as many
\* lines as there are positive lines, no negative line has the name of a
\* positive line, and no two negative lines have the same name -- for every
\* bag, one whose most frequent words are positive names included.
C11_NegativeNamesNeverCollide ==
    ConstructReturned =>
        LET negative == result.value[1]
        IN  /\ Len(negative) = Len(trends)
            /\ NamesOf(negative) \cap NamesOf(trends) = {}
            /\ \A j, k \in DOMAIN negative :
                  negative[j].name = negative[k].name => j = k

\* C11 without the positive names (it holds): the negative lines are as
\* many as the positive ones, have names of the bag that differ from each
\* other, start on a window boundary and lie within the positive span.
C11_NegativeNamesDistinct ==
    ConstructReturned =>
        LET negative == result.value[1]
        IN  /\ Len(negative) = Len(trends)
            /\ \A j, k \in DOMAIN negative :
                  negative[j].name = negative[k].name => j = k
            /\ \A k \in DOMAIN negative :
                  /\ negative[k].name \in BagWords
                  /\ ~Positive(negative[k])
                  /\ \E z \in DOMAIN trends :
                        Len(negative[k].data) = Len(trends[z].data)

\* C11 of a call of random_trend_names that is handed names (it holds): the
\* n names returned are distinct and none of them is a positive name.
C11_NamesExcludedWhenGivenNames ==
    (/\ call.op = "random_trend_names" /\ pc = "done" /\ result.exc = "none"
     /\ \A k \in DOMAIN call.positive_trends :
           call.positive_trends[k].type = "str") =>
        LET names == result.value[1]
        IN  /\ Len(names) = call.n
            /\ \A j, k \in DOMAIN names : names[j] = names[k] => j = k
            /\ \A k \in DOMAIN names : names[k] \notin NamesOf(trends)

\* The words of the bag that random_trend_names can choose: those that are
\* not in positive_trends.
Eligible ==
    {bag_of_words[k].word : k \in DOMAIN bag_of_words}
        \ {w \in BagWords : StrIn(w, call.positive_trends)}

\* C13: every call of random_trend_names(positive_trends, n) reaches its
\* return statement with n distinct names chosen, for every bag and every
\* n >= 0: also when the bag holds fewer than n eligible words, and when it
\* is empty.
C13_RandomTrendNamesTerminates ==
    (pc = "for" /\ range_i = 0) ~>
        (pc = "return" /\ Cardinality(negative_names) = call.n)

\* C13 of the calls whose bag holds at least n eligible words (it holds).
C13_TerminatesWithEnoughWords ==
    (pc = "for" /\ range_i = 0 /\ Cardinality(Eligible) >= call.n) ~>
        (pc = "return" /\ Cardinality(negative_names) = call.n)

\* The call is in its while loop with every weight of the bag at 0 and no
\* eligible word left: the loop takes the same word again, for ever.
C13_Spinning ==
    /\ pc = "while"
    /\ bag_of_words # <<>>
    /\ \A k \in DOMAIN bag_of_words : bag_of_words[k].weight = 0
    /\ Eligible \subseteq negative_names

----------------------------------------------------------------------------
(* Claims about the first pass of population, under ModelSpec              *)

\* The lines as the first pass has left them before it reads record i.
BeforeRecord(lines, file, i) == PassOne(lines, SubSeq(file, 1, i - 1), 1)

\* The record lies in the line's own span and matches its name.
Concerns(trend, tweet) ==
    /\ trend.start_ts[1] <= tweet.ts
    /\ tweet.ts < trend.start_ts[1] + trend.window_size * Len(trend.data)
    /\ match_text(trend, tweet.text)

\* The update of C12: the one cell of the record's window gets 1 more in
\* count, the record's followers and statuses in the totals, and 1 more in
\* retweets when the record is a retweet.
ClaimedUpdate(trend, tweet) ==
    LET offset == (tweet.ts - trend.start_ts[1]) \div trend.window_size
    IN  [trend EXCEPT !.data[offset + 1] =
            [@ EXCEPT
               !.count = RAdd(@, One),
               !.avg_followers = RAdd(@, I(tweet.user_followers)),
               !.avg_statuses = RAdd(@, I(tweet.user_statuses)),
               !.retweets = IF tweet.retweeted THEN RAdd(@, One) ELSE @]]

ClaimedPassOne(lines, tweet) ==
    [k \in DOMAIN lines |->
        IF Concerns(lines[k], tweet) THEN ClaimedUpdate(lines[k], tweet)
        ELSE lines[k]]

DistinctNames(lines) ==
    \A j, k \in DOMAIN lines : lines[j].name = lines[k].name => j = k

\* C12: in the first pass every record updates a line if and only if it
\* lies in that line's own span and matches its name, also when two lines
\* have the same name and different spans; the update is to the one cell of
\* the record's window, which is within the line, and every other cell and
\* line is left as it was.
C12_RecordUpdatesItsOwnSpan ==
    call.op = "populate_from_file" =>
        \A i \in DOMAIN tweet_file :
            LET before == BeforeRecord(call.trends, tweet_file, i)
            IN  before.exc = "none" =>
                    PassOneTweet(before.trends, 1, tweet_file[i]) =
                        [exc |-> "none",
                         trends |-> ClaimedPassOne(before.trends, tweet_file[i])]

\* C12 of the lists whose lines have different names (it holds).
C12_RecordUpdatesItsOwnSpanDistinctNames ==
    (call.op = "populate_from_file" /\ DistinctNames(call.trends)) =>
        \A i \in DOMAIN tweet_file :
            LET before == BeforeRecord(call.trends, tweet_file, i)
            IN  /\ before.exc = "none"
                /\ PassOneTweet(before.trends, 1, tweet_file[i]) =
                        [exc |-> "none",
                         trends |-> ClaimedPassOne(before.trends, tweet_file[i])]

\* A record of a line's own span is not counted: the line's name has the
\* shorter span of a later line.
C12_RecordOfOwnSpanSkipped ==
    /\ call.op = "populate_from_file"
    /\ result.exc = "none"
    /\ \E k \in DOMAIN call.trends : \E i \in DOMAIN tweet_file :
          /\ Concerns(call.trends[k], tweet_file[i])
          /\ \A j \in DOMAIN trends[k].data : trends[k].data[j].count = Zero

----------------------------------------------------------------------------
(* Normalization of a model that was populated, or loaded from its         *)
(* persisted representation, whose cells hold what the file holds.         *)

DeltaValues == {-2, -1, 0, 1}

\* Cells of a persisted line: any delta, every other value 0.
LoadedCells == {TrendCell(FALSE, Zero, I(d), Zero, Zero, Zero, Zero) :
                    d \in DeltaValues}

PersistedModels ==
    {serialize(<<TrendLine("a", Some(0), data, DefaultWindowSize)>>) :
        data \in SeqsUpTo(LoadedCells, MaxCells) \ {<<>>}}

\* Either the lines and the tweet file of model_from_files, or a persisted
\* model that is still to be loaded.
NormInit ==
    \/ ModelInit
    \/ /\ obj \in PersistedModels
       /\ trends = <<>> /\ tweet_file = <<>> /\ twitter_trend = None
       /\ a = <<>> /\ b = <<>>
       /\ call = NoCall
       /\ result = NoResult
       /\ NamesIdle

\* model = TrendModel.from_obj(obj)
LoadModel ==
    /\ call.op = "none"
    /\ obj # None
    /\ LET loaded == TrendModel_from_obj(obj)
       IN  /\ loaded.exc = "none"
           /\ loaded.value[1] # None
           /\ trends' = loaded.value[1].trends
    /\ call' = [op |-> "from_obj", trends |-> trends]
    /\ result' = Return(None)
    /\ UNCHANGED <<tweet_file, twitter_trend, a, b, obj>>
    /\ UNCHANGED names_vars

\* model.normalize() on the loaded model
NormalizeLoaded ==
    /\ call.op = "from_obj"
    /\ LET done == normalize(trends)
       IN  /\ trends' = done.trends
           /\ result' = IF done.exc = "none" THEN Return(None)
                        ELSE Raise(done.exc)
    /\ call' = [op |-> "normalize", trends |-> trends]
    /\ UNCHANGED <<tweet_file, twitter_trend, a, b, obj>>
    /\ UNCHANGED names_vars

NormNext ==
    \/ CallPopulate
    \/ CallNormalize
    \/ CallLeaveOneOut
    \/ LoadModel
    \/ NormalizeLoaded

NormSpec == NormInit /\ [][NormNext]_vars

----------------------------------------------------------------------------
(* Claims about repeated normalization, under NormSpec                     *)

\* What normalize must leave alone: the names, starts and window sizes, and
\* the labels and retweets of the cells, which stay as many.
SameFrame(lines1, lines2) ==
    /\ Len(lines1) = Len(lines2)
    /\ \A k \in DOMAIN lines1 :
          /\ lines1[k].name = lines2[k].name
          /\ lines1[k].start_ts = lines2[k].start_ts
          /\ lines1[k].window_size = lines2[k].window_size
          /\ Len(lines1[k].data) = Len(lines2[k].data)
          /\ \A j \in DOMAIN lines1[k].data :
                /\ lines1[k].data[j].trending = lines2[k].data[j].trending
                /\ lines1[k].data[j].retweets = lines2[k].data[j].retweets

FreshOf(lines) ==
    [k \in DOMAIN lines |->
        [lines[k] EXCEPT !.data =
            [j \in DOMAIN @ |-> NewCell(lines[k].data[j].trending)]]]

\* No maximum that normalize divides by is negative.
NonNegativeMaxima(lines) ==
    \A k \in DOMAIN lines : \A f \in NormalizedFields :
        RLe(Zero, FieldMax(lines[k].data, f))

\* C14 of the models in which no line has a negative maximum, as in every
\* populated model, where the first cell of a line has delta 0 and
\* delta_delta 0 (it holds): normalize() leaves such a model normalized for
\* good, leave_one_out does not alter a model that was populated and
\* normalized, and normalize changes nothing outside the five fields.
C14_NormalizeIdempotentNonNegativeMaxima ==
    /\ (call.op = "normalize" /\ result.exc = "none") =>
          /\ NonNegativeMaxima(call.trends) =>
                normalize(trends) = [exc |-> "none", trends |-> trends]
          /\ SameFrame(call.trends, trends)
    /\ (call.op = "populate_from_file" /\ result.exc = "none") =>
          NonNegativeMaxima(trends)
    /\ (call.op = "leave_one_out" /\ obj = None) => trends = call.trends

\* A populated model has been normalized, which changed a line in which
\* count falls from one window to the next, and leave_one_out has
\* normalized it once more.
C14_PopulatedWitness ==
    /\ call.op = "leave_one_out"
    /\ populate_from_file(FreshOf(trends), tweet_file).trends # trends
    /\ \E k \in DOMAIN trends : \E j \in DOMAIN trends[k].data :
          RLt(trends[k].data[j].delta, Zero)

=============================================================================
